---- MODULE Spec2Model ----
(***************************************************************************)
(* CacheSimulator (src/correlation_finder.py): a bounded in-memory cache   *)
(* with four eviction strategies, lazy expiry and hit/miss accounting.     *)
(*                                                                         *)
(* The OrderedDict self.cache is a sequence of entries in iteration order. *)
(* time.time() is the integer clock `now`; the clock is coarser than one   *)
(* call, so the reads inside one call return the same value and time       *)
(* passes between calls (Tick).  Python's None is the string "None" where  *)
(* a key or a value may stand, and the empty sequence where a number may   *)
(* stand (custom_ttl, last_access).                                        *)
(***************************************************************************)
EXTENDS Integers, Sequences, FiniteSets, TLC

\* ---------------------------------------------------------------- bounds
MaxCap == 3
MaxSteps == 4
\* get calls counted before a get_stats() of SpecStats
MaxLookups == 22

\* significant bits of a Python float (IEEE 754 binary64)
MantBits == 53

\* custom_ttl of the entries warmup() sets
WarmupTtl == 3600

Keys == {"a", "b", "c"}
Values == {"v1", "v2"}
Strategies == {"lru", "lfu", "fifo", "ttl"}
Threads == {"t1", "t2"}
\* the arguments the threads of SpecThreads draw from
ThreadKeys == {"a", "b"}
ThreadValues == {"v1"}
ThreadTtls == {<<>>, <<-1>>}
ThreadCaps == {1, 2}
DefaultTtls == {1}
CustomTtls == {<<>>, <<0>>, <<-1>>}
\* the keys warmup() generates, in the order it generates them
WarmupKeys == <<"a", "b", "c">>
\* max_size arguments of the constructor, the non-positive ones included
CtorCaps == {-1, 0, 1}

VARIABLES
    max_size,        \* self.max_size
    ttl,             \* self.ttl
    strategy,        \* self.strategy
    cache,           \* self.cache, in iteration order
    access_count,    \* self.access_count (defaultdict(int))
    hit_count,       \* self.hit_count
    miss_count,      \* self.miss_count
    eviction_count,  \* self.eviction_count
    now,             \* time.time()
    last,            \* the call that just returned: op, key, custom_ttl, ret, evicted
    inserted,        \* keys present, in the order of the set that made each present
    used,            \* keys present, in the order of their latest set or get hit
    rewritten,       \* keys present that a set has overwritten since they became present
    steps,           \* calls issued and clock ticks so far
    scenario,        \* how far the calls so far follow  set a, set b, (get a, set c | set a, evict)
    gets,            \* get calls that have returned
    stats,           \* the dict the get_stats() that just returned gave, in a sequence
    seen,            \* <<the (hits, misses, evictions, size) of the states between calls
                     \* so far>> where a reporter thread runs, <<>> elsewhere
    tally,           \* <<sets that added a key absent at insertion, deletes that removed a
                     \* present key>> where the calls are counted, <<>> elsewhere
    lock,            \* self.lock: the thread holding it, or "free"
    th               \* per thread: where it is in its call, the call's arguments and locals

vars == <<max_size, ttl, strategy, cache, access_count, hit_count, miss_count,
          eviction_count, now, last, inserted, used, rewritten, steps, scenario,
          gets, stats, seen, tally, lock, th>>

config == <<max_size, ttl, strategy>>

\* what the threads of SpecThreads add to the state
threads == <<lock, th>>

\* the bookkeeping of the calls of Spec
bookkeeping == <<last, inserted, used, rewritten, scenario, stats, seen>>

history == <<bookkeeping, tally>>

\* one more step of a run of at most MaxSteps
Issue == steps < MaxSteps /\ steps' = steps + 1

\* ------------------------------------------------------- Python helpers
KeysOf(c) == {c[i].key : i \in 1..Len(c)}

IndexOf(c, k) == CHOOSE i \in 1..Len(c) : c[i].key = k

\* c[k]
Item(c, k) == c[IndexOf(c, k)]

\* del c[k]
DelItem(c, k) == SelectSeq(c, LAMBDA e : e.key # k)

\* OrderedDict.move_to_end(k)
move_to_end(c, k) == Append(DelItem(c, k), c[IndexOf(c, k)])

\* Reorder without the move on a hit, and with the move under every strategy
ReorderNever(c, k, s) == c

ReorderAlways(c, k, s) == move_to_end(c, k)

\* if self.strategy == 'lru': self.cache.move_to_end(key)
Reorder(c, k, s) == IF s = "lru" THEN move_to_end(c, k) ELSE c

\* c[k] = e : a present key keeps its place, a new key goes to the end
SetItem(c, k, e) ==
    IF k \in KeysOf(c) THEN [c EXCEPT ![IndexOf(c, k)] = e] ELSE Append(c, e)

\* custom_ttl or self.ttl : None and 0 are both falsy
TtlOr(custom_ttl, dflt) ==
    IF custom_ttl = <<>> \/ custom_ttl = <<0>> THEN dflt ELSE custom_ttl[1]

\* LfuVictim taking the last key of the least count instead of the first
LfuVictimLast(c) ==
    c[CHOOSE i \in 1..Len(c) :
        /\ \A j \in 1..Len(c) : c[i].accessed <= c[j].accessed
        /\ \A j \in (i + 1)..Len(c) : c[j].accessed > c[i].accessed].key

\* min(c.keys(), key=lambda k: c[k]['accessed']) : the first key with the least count
LfuVictim(c) ==
    c[CHOOSE i \in 1..Len(c) :
        /\ \A j \in 1..Len(c) : c[i].accessed <= c[j].accessed
        /\ \A j \in 1..(i - 1) : c[j].accessed > c[i].accessed].key

\* TtlVictim taking the key of the greatest expiry instead of the least
TtlVictimLatest(c) ==
    c[CHOOSE i \in 1..Len(c) :
        /\ \A j \in 1..Len(c) : c[i].expires >= c[j].expires
        /\ \A j \in 1..(i - 1) : c[j].expires < c[i].expires].key

\* min(c.keys(), key=lambda k: c[k]['expires']) : the first key with the least expiry
TtlVictim(c) ==
    c[CHOOSE i \in 1..Len(c) :
        /\ \A j \in 1..Len(c) : c[i].expires <= c[j].expires
        /\ \A j \in 1..(i - 1) : c[j].expires > c[i].expires].key

\* popitem(last=False)
LruVictim(c) == c[1].key

\* next(iter(c))
FifoVictim(c) == c[1].key

Victim(c, s) ==
    CASE s = "lru" -> LruVictim(c)
      [] s = "lfu" -> LfuVictim(c)
      [] s = "fifo" -> FifoVictim(c)
      [] OTHER -> TtlVictim(c)

\* evict() without the count of the eviction
evictUncounted(c, ec, s) ==
    IF Len(c) = 0
    THEN [cache |-> c, eviction_count |-> ec, ret |-> "None"]
    ELSE [cache |-> DelItem(c, Victim(c, s)), eviction_count |-> ec, ret |-> Victim(c, s)]

\* evict() that removes the victim and the next victim after it
evictTwice(c, ec, s) ==
    IF Len(c) = 0
    THEN [cache |-> c, eviction_count |-> ec, ret |-> "None"]
    ELSE LET d == DelItem(c, Victim(c, s))
         IN  [cache |-> IF Len(d) = 0 THEN d ELSE DelItem(d, Victim(d, s)),
              eviction_count |-> ec + 1,
              ret |-> Victim(c, s)]

\* evict() that also resets the counts of the entries it leaves
evictClearing(c, ec, s) ==
    IF Len(c) = 0
    THEN [cache |-> c, eviction_count |-> ec, ret |-> "None"]
    ELSE LET d == DelItem(c, Victim(c, s))
         IN  [cache |-> [i \in 1..Len(d) |-> [d[i] EXCEPT !.accessed = 0]],
              eviction_count |-> ec + 1,
              ret |-> Victim(c, s)]

\* evict() counting an eviction on an empty store as well
evictEmptyCounted(c, ec, s) ==
    IF Len(c) = 0
    THEN [cache |-> c, eviction_count |-> ec + 1, ret |-> "None"]
    ELSE [cache |-> DelItem(c, Victim(c, s)),
          eviction_count |-> ec + 1,
          ret |-> Victim(c, s)]

\* evict(): the store, the counter and the returned key
evict(c, ec, s) ==
    IF Len(c) = 0
    THEN [cache |-> c, eviction_count |-> ec, ret |-> "None"]
    ELSE [cache |-> DelItem(c, Victim(c, s)),
          eviction_count |-> ec + 1,
          ret |-> Victim(c, s)]

\* AtCapacity true already one entry below capacity
AtCapacityEarly(c, cap) == Len(c) + 1 >= cap

\* AtCapacity true only above capacity
AtCapacityAbove(c, cap) == Len(c) > cap

\* len(self.cache) >= self.max_size
AtCapacity(c, cap) == Len(c) >= cap

\* if len(self.cache) >= self.max_size: self.evict()
SetEvict(c, ec, s, cap) ==
    IF AtCapacity(c, cap) THEN evict(c, ec, s)
    ELSE [cache |-> c, eviction_count |-> ec, ret |-> "None"]

NewEntry(key, value, expires, created) ==
    [key |-> key, value |-> value, expires |-> expires, created |-> created,
     accessed |-> 0, last_access |-> <<>>]

RECURSIVE warmupDefaultTtl(_, _, _, _, _, _, _)
\* warmup() setting its entries without custom_ttl
warmupDefaultTtl(c, ec, s, cap, dflt, t, keys) ==
    IF keys = <<>> THEN [cache |-> c, eviction_count |-> ec, ttl |-> dflt]
    ELSE warmupDefaultTtl(
             SetItem(SetEvict(c, ec, s, cap).cache, Head(keys),
                     NewEntry(Head(keys), "v1", t + TtlOr(<<>>, dflt), t)),
             SetEvict(c, ec, s, cap).eviction_count, s, cap, dflt, t, Tail(keys))

RECURSIVE warmupRaisingDefault(_, _, _, _, _, _, _)
\* warmup() that makes 3600 the default ttl of the cache
warmupRaisingDefault(c, ec, s, cap, dflt, t, keys) ==
    IF keys = <<>> THEN [cache |-> c, eviction_count |-> ec, ttl |-> WarmupTtl]
    ELSE warmupRaisingDefault(
             SetItem(SetEvict(c, ec, s, cap).cache, Head(keys),
                     NewEntry(Head(keys), "v1", t + TtlOr(<<WarmupTtl>>, dflt), t)),
             SetEvict(c, ec, s, cap).eviction_count, s, cap, dflt, t, Tail(keys))

RECURSIVE warmup(_, _, _, _, _, _, _)
\* warmup(count): for each generated key, self.set(key, value, custom_ttl=3600);
\* the store, the eviction counter and self.ttl afterwards
warmup(c, ec, s, cap, dflt, t, keys) ==
    IF keys = <<>> THEN [cache |-> c, eviction_count |-> ec, ttl |-> dflt]
    ELSE warmup(
             SetItem(SetEvict(c, ec, s, cap).cache, Head(keys),
                     NewEntry(Head(keys), "v1", t + TtlOr(<<WarmupTtl>>, dflt), t)),
             SetEvict(c, ec, s, cap).eviction_count, s, cap, dflt, t, Tail(keys))

\* a miss counted twice
CountMissTwice(mc) == mc + 2

\* a miss that is not counted
CountMissNever(mc) == mc

\* self.miss_count += 1
CountMiss(mc) == mc + 1

\* Hit without the write of last_access
HitUntimed(item, t) == [item EXCEPT !.accessed = @ + 1]

\* a hit that counts the access twice on the entry
HitTwice(item, t) == [item EXCEPT !.accessed = @ + 2, !.last_access = <<t>>]

\* item['accessed'] += 1; item['last_access'] = time.time()
Hit(item, t) == [item EXCEPT !.accessed = @ + 1, !.last_access = <<t>>]

\* time.time() > item['expires']
Expired(t, item) == t > item.expires

\* ------------------------------------------------------- Python floats
\* A float other than 0.0 is mant * 2^exp.  mant has MantBits binary digits, kept
\* as a leading 1 followed by Limbs digits of base Base; 0.0 has no digits.
Base == 2^13

Limbs == (MantBits - 1) \div 13

FZero == [mant |-> <<>>, exp |-> 0]

RECURSIVE BitLen(_)
\* the number of binary digits of n >= 1
BitLen(n) == IF n < 2 THEN 1 ELSE 1 + BitLen(n \div 2)

\* float(n), exact for 0 <= n < Base
FromInt(n) ==
    IF n = 0 THEN FZero
    ELSE LET k == BitLen(n) - 1
         IN  [mant |-> [i \in 1..(Limbs + 1) |->
                          IF i = 1 THEN 1
                          ELSE IF i = 2 THEN (n - 2^k) * (Base \div 2^k)
                          ELSE 0],
              exp |-> k - (MantBits - 1)]

RECURSIVE AddAt(_, _)
\* m with 1 added to digit i, the carry going to the digits before it
AddAt(m, i) ==
    IF i = 1 \/ m[i] + 1 < Base THEN [m EXCEPT ![i] = @ + 1]
    ELSE AddAt([m EXCEPT ![i] = 0], i - 1)

\* round to nearest, ties to even: up tells that the part dropped after m is more
\* than half a unit of the last digit of m, tie that it is exactly half
Round(m, e, up, tie) ==
    IF up \/ (tie /\ m[Len(m)] % 2 = 1)
    THEN LET n == AddAt(m, Len(m))
         IN  IF n[1] = 2 THEN [mant |-> [n EXCEPT ![1] = 1], exp |-> e + 1]
             ELSE [mant |-> n, exp |-> e]
    ELSE [mant |-> m, exp |-> e]

RECURSIVE Shift(_, _)
\* the least s with h * 2^s >= t, for 1 <= h <= t
Shift(h, t) == IF h >= t THEN 0 ELSE 1 + Shift(2 * h, t)

RECURSIVE Quot(_, _, _)
\* n digits of r / t by long division (r < t), followed by the remainder
Quot(r, t, n) ==
    IF n = 0 THEN <<r>>
    ELSE <<(r * Base) \div t>> \o Quot((r * Base) % t, t, n - 1)

\* TrueDiv dropping the digits after the last one kept
TrueDivTruncated(h, t) ==
    IF h = 0 THEN FZero
    ELSE LET s == Shift(h, t)
             q == Quot(h * 2^s - t, t, Limbs)
         IN  [mant |-> <<1>> \o SubSeq(q, 1, Limbs), exp |-> 0 - s - (MantBits - 1)]

\* h / t for ints 0 <= h <= t, 0 < t < Base: the float nearest to the quotient
TrueDiv(h, t) ==
    IF h = 0 THEN FZero
    ELSE LET s == Shift(h, t)
             q == Quot(h * 2^s - t, t, Limbs)
             rem == q[Limbs + 1]
         IN  Round(<<1>> \o SubSeq(q, 1, Limbs), 0 - s - (MantBits - 1),
                   2 * rem > t, 2 * rem = t)

RECURSIVE MulAt(_, _, _, _)
\* the digits of m[1..i] * n + carry; the first digit takes what is left
MulAt(m, n, i, carry) ==
    IF i = 1 THEN <<m[1] * n + carry>>
    ELSE Append(MulAt(m, n, i - 1, (m[i] * n + carry) \div Base), (m[i] * n + carry) % Base)

\* x * n for a float x and an int 1 <= n < Base: the float nearest to the product
FMulInt(x, n) ==
    IF x = FZero THEN FZero
    ELSE LET p == MulAt(x.mant, n, Len(x.mant), 0)
             k == BitLen(p[1]) - 1
             kept == [i \in 1..Len(p) |->
                        IF i = 1 THEN p[1] \div 2^k
                        ELSE (p[i - 1] % 2^k) * (Base \div 2^k) + p[i] \div 2^k]
             dropped == p[Len(p)] % 2^k
         IN  Round(kept, x.exp + k, 2 * dropped > 2^k, 2 * dropped = 2^k)

\* get_stats(): memory_estimate, a sum of len(str(v)) over the values, is left
\* out; it reads the entries and writes nothing
get_stats(c, hc, mc, ec, cap, s) ==
    LET total_requests == hc + mc
        hit_ratio == IF total_requests > 0 THEN TrueDiv(hc, total_requests) ELSE FZero
    IN  [size |-> Len(c), max_size |-> cap, hits |-> hc, misses |-> mc,
         hit_ratio |-> hit_ratio, evictions |-> ec, strategy |-> s]

\* ------------------------------------------------------ history helpers
Without(q, k) == SelectSeq(q, LAMBDA x : x # k)

Touch(q, k) == Append(Without(q, k), k)

FirstIn(q, k) == IF \E i \in 1..Len(q) : q[i] = k THEN q ELSE Append(q, k)

Call(op, key, custom_ttl, ret, evicted) ==
    [op |-> op, key |-> key, custom_ttl |-> custom_ttl, ret |-> ret, evicted |-> evicted]

ScenarioStep(op, key, custom_ttl, ret) ==
    CASE scenario = "new" /\ op = "set" /\ key = "a" /\ custom_ttl = <<>> -> "a"
      [] scenario = "a" /\ op = "set" /\ key = "b" /\ custom_ttl = <<>> -> "ab"
      [] scenario = "ab" /\ op = "get" /\ key = "a" /\ ret # "None" -> "ab_geta"
      [] scenario = "ab_geta" /\ op = "set" /\ key = "c" /\ custom_ttl = <<>> -> "ab_geta_c"
      [] scenario = "ab" /\ op = "set" /\ key = "a" /\ custom_ttl = <<>> -> "ab_seta"
      [] scenario = "ab_seta" /\ op = "evict" -> "ab_seta_evict"
      [] OTHER -> "off"

\* a thread outside any call
\* self.cache[key] = {...} on store c: one more key added if key was absent
Added(tl, c, key) ==
    IF tl = <<>> \/ key \in KeysOf(c) THEN tl ELSE <<tl[1] + 1, tl[2]>>

\* the delete block on store c: one more key deleted if key was present
Deleted(tl, c, key) ==
    IF tl = <<>> \/ key \notin KeysOf(c) THEN tl ELSE <<tl[1], tl[2] + 1>>

\* the counters and size of the state a call has left, added to those seen so far
Observe(s, hc, mc, ec, c) ==
    IF s = <<>> THEN s ELSE <<s[1] \cup {<<hc, mc, ec, Len(c)>>}>>

Idle ==
    [pc |-> "idle", op |-> "none", key |-> "None", value |-> "None", custom_ttl |-> <<>>,
     victim |-> "None", reg |-> 0, ret |-> "None", snap |-> <<>>]

\* ----------------------------------------------------------------- Init
\* the state after CacheSimulator(max_size=cap, ttl=dflt), random.choice giving s
Constructed(cap, dflt, s) ==
    /\ max_size = cap
    /\ ttl = dflt
    /\ strategy = s
    /\ cache = <<>>
    /\ access_count = [k \in Keys |-> 0]
    /\ hit_count = 0
    /\ miss_count = 0
    /\ eviction_count = 0
    /\ now = 0
    /\ last = Call("init", "None", <<>>, "None", "None")
    /\ inserted = <<>>
    /\ used = <<>>
    /\ rewritten = {}
    /\ scenario = "new"
    /\ steps = 0
    /\ gets = 0
    /\ stats = <<>>
    /\ seen = <<>>
    /\ tally = <<>>
    /\ lock = "free"
    /\ th = [t \in Threads |-> Idle]

\* a cache of positive capacity
Init ==
    \E cap \in 1..MaxCap, dflt \in DefaultTtls, s \in Strategies : Constructed(cap, dflt, s)

\* a cache of any capacity a caller passes: __init__ stores max_size as given
InitAny ==
    \E cap \in CtorCaps, dflt \in DefaultTtls, s \in Strategies : Constructed(cap, dflt, s)

\* -------------------------------------------------------------- actions
\* set(key, value, custom_ttl)
Set(key, value, custom_ttl) ==
    /\ Issue
    /\ LET ev == SetEvict(cache, eviction_count, strategy, max_size)
            entry == NewEntry(key, value, now + TtlOr(custom_ttl, ttl), now)
            ins == IF ev.ret = "None" THEN inserted ELSE Without(inserted, ev.ret)
            usd == IF ev.ret = "None" THEN used ELSE Without(used, ev.ret)
            rew == rewritten \ {ev.ret}
        IN  /\ cache' = SetItem(ev.cache, key, entry)
            /\ eviction_count' = ev.eviction_count
            /\ last' = Call("set", key, custom_ttl, "True", ev.ret)
            /\ inserted' = FirstIn(ins, key)
            /\ used' = Touch(usd, key)
            /\ rewritten' = IF key \in KeysOf(ev.cache) THEN rew \cup {key} ELSE rew
            /\ scenario' = ScenarioStep("set", key, custom_ttl, "True")
    /\ stats' = <<>>
    /\ UNCHANGED <<config, access_count, hit_count, miss_count, now, gets, threads>>
    /\ seen' = Observe(seen, hit_count', miss_count', eviction_count', cache')
    /\ tally' = Added(tally, SetEvict(cache, eviction_count, strategy, max_size).cache, key)

\* get(key)
Get(key) ==
    /\ Issue
    /\ stats' = <<>>
    /\ IF key \notin KeysOf(cache)
       THEN /\ miss_count' = CountMiss(miss_count)
            /\ gets' = gets + 1
            /\ last' = Call("get", key, <<>>, "None", "None")
            /\ scenario' = ScenarioStep("get", key, <<>>, "None")
            /\ UNCHANGED <<config, cache, access_count, hit_count, eviction_count,
                           now, inserted, used, rewritten, threads>>
       ELSE LET item == Item(cache, key) IN
              IF Expired(now, item)
              THEN /\ cache' = DelItem(cache, key)
                   /\ miss_count' = CountMiss(miss_count)
                   /\ gets' = gets + 1
                   /\ eviction_count' = eviction_count + 1
                   /\ last' = Call("get", key, <<>>, "None", "None")
                   /\ inserted' = Without(inserted, key)
                   /\ used' = Without(used, key)
                   /\ rewritten' = rewritten \ {key}
                   /\ scenario' = ScenarioStep("get", key, <<>>, "None")
                   /\ UNCHANGED <<config, access_count, hit_count, now, threads>>
              ELSE LET hit == Hit(item, now)
                       c1 == [cache EXCEPT ![IndexOf(cache, key)] = hit]
                   IN  /\ cache' = Reorder(c1, key, strategy)
                       /\ hit_count' = hit_count + 1
                       /\ gets' = gets + 1
                       /\ access_count' = [access_count EXCEPT ![key] = @ + 1]
                       /\ last' = Call("get", key, <<>>, item.value, "None")
                       /\ used' = Touch(used, key)
                       /\ scenario' = ScenarioStep("get", key, <<>>, item.value)
                       /\ UNCHANGED <<config, miss_count, eviction_count, now,
                                      inserted, rewritten, threads>>
    /\ seen' = Observe(seen, hit_count', miss_count', eviction_count', cache')
    /\ tally' = tally

\* evict()
Evict ==
    /\ Issue
    /\ LET ev == evict(cache, eviction_count, strategy) IN
        /\ cache' = ev.cache
        /\ eviction_count' = ev.eviction_count
        /\ last' = Call("evict", "None", <<>>, ev.ret, ev.ret)
        /\ inserted' = Without(inserted, ev.ret)
        /\ used' = Without(used, ev.ret)
        /\ rewritten' = rewritten \ {ev.ret}
        /\ scenario' = ScenarioStep("evict", "None", <<>>, ev.ret)
    /\ stats' = <<>>
    /\ UNCHANGED <<config, access_count, hit_count, miss_count, now, gets, threads>>
    /\ seen' = Observe(seen, hit_count', miss_count', eviction_count', cache')
    /\ tally' = tally

\* the delete branch of simulate_workload: with self.lock: if key in cache: del cache[key]
\* (statements of the workload loop: they yield no value)
Delete(key) ==
    /\ Issue
    /\ cache' = IF key \in KeysOf(cache) THEN DelItem(cache, key) ELSE cache
    /\ last' = Call("delete", key, <<>>, "None", "None")
    /\ inserted' = Without(inserted, key)
    /\ used' = Without(used, key)
    /\ rewritten' = rewritten \ {key}
    /\ scenario' = "off"
    /\ stats' = <<>>
    /\ UNCHANGED <<config, access_count, hit_count, miss_count, eviction_count, now,
                   gets, threads>>
    /\ seen' = Observe(seen, hit_count', miss_count', eviction_count', cache')
    /\ tally' = Deleted(tally, cache, key)

\* get_stats()
GetStats ==
    /\ Issue
    /\ stats' = <<get_stats(cache, hit_count, miss_count, eviction_count, max_size, strategy)>>
    /\ seen' = seen
    /\ last' = Call("get_stats", "None", <<>>, "None", "None")
    /\ scenario' = "off"
    /\ UNCHANGED <<config, cache, access_count, hit_count, miss_count, eviction_count,
                   now, inserted, used, rewritten, gets, threads>>
    /\ tally' = tally

\* time passes between two calls
Tick ==
    /\ Issue
    /\ now' = now + 1
    /\ last' = Call("tick", "None", <<>>, "None", "None")
    /\ stats' = <<>>
    /\ UNCHANGED <<config, cache, access_count, hit_count, miss_count, eviction_count,
                   inserted, used, rewritten, scenario, gets, threads>>
    /\ seen' = Observe(seen, hit_count', miss_count', eviction_count', cache')
    /\ tally' = tally

Next ==
    \/ \E key \in Keys, value \in Values, custom_ttl \in CustomTtls :
         Set(key, value, custom_ttl)
    \/ \E key \in Keys : Get(key)
    \/ Evict
    \/ \E key \in Keys : Delete(key)
    \/ GetStats
    \/ Tick

Spec == Init /\ [][Next]_vars

\* warmup(count) as main() calls it, on the cache just constructed: count calls of set
Warmup(count) ==
    /\ last.op = "init"
    /\ steps + count <= MaxSteps
    /\ steps' = steps + count
    /\ LET w == warmup(cache, eviction_count, strategy, max_size, ttl, now,
                       SubSeq(WarmupKeys, 1, count))
       IN  /\ cache' = w.cache
           /\ eviction_count' = w.eviction_count
           /\ ttl' = w.ttl
           /\ inserted' = [i \in 1..Len(w.cache) |-> w.cache[i].key]
           /\ used' = [i \in 1..Len(w.cache) |-> w.cache[i].key]
    /\ last' = Call("warmup", "None", <<WarmupTtl>>, "None", "None")
    /\ rewritten' = {}
    /\ scenario' = "off"
    /\ stats' = <<>>
    /\ UNCHANGED <<max_size, strategy, access_count, hit_count, miss_count, now, gets,
                   threads>>
    /\ seen' = Observe(seen, hit_count', miss_count', eviction_count', cache')
    /\ tally' = IF tally = <<>> THEN tally ELSE <<tally[1] + count, tally[2]>>

NextMain ==
    \/ \E count \in 1..Len(WarmupKeys) : Warmup(count)
    \/ Next

\* main(): the constructor, warmup, then the calls of Spec
SpecMain == Init /\ [][NextMain]_vars

\* the calls of Spec on a cache constructed with any max_size
SpecAny == InitAny /\ [][Next]_vars

\* a cache after hc hits on key "a" and mc misses, the entry of "a" still present
\* or deleted since, and ec evictions of other keys
InitStats ==
    \E hc \in 0..MaxLookups, mc \in 0..MaxLookups, ec \in 0..1, s \in Strategies,
       present \in BOOLEAN :
        /\ hc + mc <= MaxLookups
        /\ max_size = MaxCap
        /\ ttl \in DefaultTtls
        /\ strategy = s
        /\ cache = IF present
                   THEN <<[NewEntry("a", "v1", ttl, 0) EXCEPT
                             !.accessed = hc,
                             !.last_access = IF hc > 0 THEN <<0>> ELSE <<>>]>>
                   ELSE <<>>
        /\ access_count = [k \in Keys |-> IF k = "a" THEN hc ELSE 0]
        /\ hit_count = hc
        /\ miss_count = mc
        /\ eviction_count = ec
        /\ now = 0
        /\ last = Call("init", "None", <<>>, "None", "None")
        /\ inserted = IF present THEN <<"a">> ELSE <<>>
        /\ used = IF present THEN <<"a">> ELSE <<>>
        /\ rewritten = {}
        /\ scenario = "off"
        /\ steps = 0
        /\ gets = hc + mc
        /\ stats = <<>>
        /\ seen = <<>>
        /\ tally = <<>>
        /\ lock = "free"
        /\ th = [t \in Threads |-> Idle]

NextStats == GetStats

\* get_stats() on a cache that has counted up to MaxLookups get calls
SpecStats == InitStats /\ [][NextStats]_vars

\* ------------------------------------------------------------- threads
\* The same calls issued by the threads of Threads, one statement at a time.
\* set, get and the workload's delete run inside `with self.lock`; evict() takes
\* no lock, whether set calls it or a thread calls it directly.  An exception
\* leaves the call through the with-statements, which release the lock.

At(t, pc) == th[t].pc = pc

Goto(t, pc) == th' = [th EXCEPT ![t].pc = pc]

\* a return that leaves the with-statement without releasing the lock
ReturnHolding(t, ret) ==
    /\ th' = [th EXCEPT ![t] = [Idle EXCEPT !.op = th[t].op, !.key = th[t].key, !.ret = ret]]
    /\ lock' = lock

\* return ret to the caller; the with-statement, if any, releases the lock
Return(t, ret) ==
    /\ th' = [th EXCEPT ![t] = [Idle EXCEPT !.op = th[t].op, !.key = th[t].key, !.ret = ret]]
    /\ lock' = IF lock = t THEN "free" ELSE lock

\* an exception (KeyError, StopIteration, ValueError) ends the call
Raise(t) == Return(t, "raised")

Begin(t, op, key, value, custom_ttl, pc) ==
    /\ At(t, "idle")
    /\ Issue
    /\ th' = [th EXCEPT ![t] = [Idle EXCEPT !.pc = pc, !.op = op, !.key = key,
                                            !.value = value, !.custom_ttl = custom_ttl]]

shared == <<config, cache, access_count, hit_count, miss_count, eviction_count, now, gets>>

\* with self.lock:
Acquire(t, from, to) ==
    /\ At(t, from)
    /\ lock = "free"
    /\ lock' = t
    /\ Goto(t, to)
    /\ UNCHANGED <<shared, history, steps>>

TSetCall(t, key, value, custom_ttl) ==
    /\ Begin(t, "set", key, value, custom_ttl, "set_lock")
    /\ UNCHANGED <<shared, history, lock>>

TSetLock(t) == Acquire(t, "set_lock", "set_check")

\* if len(self.cache) >= self.max_size: self.evict()
TSetCheck(t) ==
    /\ At(t, "set_check")
    /\ Goto(t, IF AtCapacity(cache, max_size) THEN "ev_empty" ELSE "set_insert")
    /\ UNCHANGED <<shared, history, steps, lock>>

\* self.cache[key] = {...}; return True
TSetInsert(t) ==
    /\ At(t, "set_insert")
    /\ cache' = SetItem(cache, th[t].key,
                        NewEntry(th[t].key, th[t].value,
                                 now + TtlOr(th[t].custom_ttl, ttl), now))
    /\ Return(t, "True")
    /\ tally' = Added(tally, cache, th[t].key)
    /\ UNCHANGED <<config, access_count, hit_count, miss_count, eviction_count, now,
                   gets, bookkeeping, steps>>

TEvictCall(t) ==
    /\ Begin(t, "evict", "None", "None", <<>>, "ev_empty")
    /\ UNCHANGED <<shared, history, lock>>

\* evict() is over: back in set, or back at the caller of evict()
EvictReturns(t, ret) ==
    IF th[t].op = "set"
    THEN th' = [th EXCEPT ![t].pc = "set_insert", ![t].victim = ret] /\ UNCHANGED lock
    ELSE Return(t, ret)

\* an evict() that waits for the cache lock to be free before it starts
TEvEmptyLocked(t) ==
    /\ At(t, "ev_empty")
    /\ lock = "free"
    /\ IF Len(cache) = 0 THEN EvictReturns(t, "None")
       ELSE Goto(t, "ev_choose") /\ UNCHANGED lock
    /\ UNCHANGED <<shared, history, steps>>

\* if not self.cache: return None
TEvEmpty(t) ==
    /\ At(t, "ev_empty")
    /\ IF Len(cache) = 0 THEN EvictReturns(t, "None")
       ELSE Goto(t, "ev_choose") /\ UNCHANGED lock
    /\ UNCHANGED <<shared, history, steps>>

\* lru: key, _ = self.cache.popitem(last=False)
\* others: key = min(...) or key = next(iter(self.cache))
TEvChoose(t) ==
    /\ At(t, "ev_choose")
    /\ IF Len(cache) = 0
       THEN Raise(t) /\ UNCHANGED cache
       ELSE /\ th' = [th EXCEPT ![t].victim = Victim(cache, strategy),
                                ![t].pc = IF strategy = "lru" THEN "ev_read" ELSE "ev_del"]
            /\ cache' = IF strategy = "lru" THEN DelItem(cache, LruVictim(cache)) ELSE cache
            /\ UNCHANGED lock
    /\ UNCHANGED <<config, access_count, hit_count, miss_count, eviction_count, now,
                   gets, history, steps>>

\* del self.cache[key]
TEvDel(t) ==
    /\ At(t, "ev_del")
    /\ IF th[t].victim \in KeysOf(cache)
       THEN /\ cache' = DelItem(cache, th[t].victim)
            /\ Goto(t, "ev_read")
            /\ UNCHANGED lock
       ELSE Raise(t) /\ UNCHANGED cache
    /\ UNCHANGED <<config, access_count, hit_count, miss_count, eviction_count, now,
                   gets, history, steps>>

\* self.eviction_count += 1 : the load
TEvRead(t) ==
    /\ At(t, "ev_read")
    /\ th' = [th EXCEPT ![t].reg = eviction_count, ![t].pc = "ev_write"]
    /\ UNCHANGED <<shared, history, steps, lock>>

\* self.eviction_count += 1 : the store; return key
TEvWrite(t) ==
    /\ At(t, "ev_write")
    /\ eviction_count' = th[t].reg + 1
    /\ EvictReturns(t, th[t].victim)
    /\ UNCHANGED <<config, cache, access_count, hit_count, miss_count, now, gets,
                   history, steps>>

TGetCall(t, key) ==
    /\ Begin(t, "get", key, "None", <<>>, "get_lock")
    /\ UNCHANGED <<shared, history, lock>>

TGetLock(t) == Acquire(t, "get_lock", "get_check")

\* if key not in self.cache: self.miss_count += 1; return None
TGetCheck(t) ==
    /\ At(t, "get_check")
    /\ IF th[t].key \notin KeysOf(cache)
       THEN /\ miss_count' = CountMiss(miss_count)
            /\ gets' = gets + 1
            /\ Return(t, "None")
       ELSE /\ Goto(t, "get_item")
            /\ UNCHANGED <<miss_count, gets, lock>>
    /\ UNCHANGED <<config, cache, access_count, hit_count, eviction_count, now,
                   history, steps>>

\* item = self.cache[key]; if time.time() > item['expires']:
TGetItem(t) ==
    /\ At(t, "get_item")
    /\ IF th[t].key \notin KeysOf(cache) THEN Raise(t)
       ELSE /\ Goto(t, IF Expired(now, Item(cache, th[t].key)) THEN "get_del" ELSE "get_hit")
            /\ UNCHANGED lock
    /\ UNCHANGED <<shared, history, steps>>

\* del self.cache[key]
TGetDel(t) ==
    /\ At(t, "get_del")
    /\ IF th[t].key \in KeysOf(cache)
       THEN /\ cache' = DelItem(cache, th[t].key)
            /\ Goto(t, "get_miss")
            /\ UNCHANGED lock
       ELSE Raise(t) /\ UNCHANGED cache
    /\ UNCHANGED <<config, access_count, hit_count, miss_count, eviction_count, now,
                   gets, history, steps>>

\* self.miss_count += 1; self.eviction_count += 1; return None
TGetMiss(t) ==
    /\ At(t, "get_miss")
    /\ miss_count' = CountMiss(miss_count)
    /\ eviction_count' = eviction_count + 1
    /\ gets' = gets + 1
    /\ Return(t, "None")
    /\ UNCHANGED <<config, cache, access_count, hit_count, now, history, steps>>

\* item['accessed'] += 1; item['last_access'] = time.time()
\* (item is the dict the store held: an entry evicted meanwhile is updated out of the store)
TGetHit(t) ==
    /\ At(t, "get_hit")
    /\ cache' = IF th[t].key \in KeysOf(cache)
                THEN [cache EXCEPT ![IndexOf(cache, th[t].key)] = Hit(@, now)]
                ELSE cache
    /\ th' = [th EXCEPT ![t].pc = "get_move",
                        ![t].value = IF th[t].key \in KeysOf(cache)
                                     THEN Item(cache, th[t].key).value ELSE "gone"]
    /\ UNCHANGED <<config, access_count, hit_count, miss_count, eviction_count, now,
                   gets, history, steps, lock>>

\* if self.strategy == 'lru': self.cache.move_to_end(key)
TGetMove(t) ==
    /\ At(t, "get_move")
    /\ IF strategy = "lru" /\ th[t].key \notin KeysOf(cache)
       THEN Raise(t) /\ UNCHANGED cache
       ELSE /\ cache' = IF th[t].key \in KeysOf(cache)
                        THEN Reorder(cache, th[t].key, strategy) ELSE cache
            /\ Goto(t, "get_done")
            /\ UNCHANGED lock
    /\ UNCHANGED <<config, access_count, hit_count, miss_count, eviction_count, now,
                   gets, history, steps>>

\* self.hit_count += 1; self.access_count[key] += 1; return item['value']
TGetDone(t) ==
    /\ At(t, "get_done")
    /\ hit_count' = hit_count + 1
    /\ access_count' = [access_count EXCEPT ![th[t].key] = @ + 1]
    /\ gets' = gets + 1
    /\ Return(t, th[t].value)
    /\ UNCHANGED <<config, cache, miss_count, eviction_count, now, history, steps>>

TDeleteCall(t, key) ==
    /\ Begin(t, "delete", key, "None", <<>>, "del_lock")
    /\ UNCHANGED <<shared, history, lock>>

TDeleteLock(t) == Acquire(t, "del_lock", "del_check")

\* if key in self.cache:
TDeleteCheck(t) ==
    /\ At(t, "del_check")
    /\ IF th[t].key \in KeysOf(cache)
       THEN Goto(t, "del_del") /\ UNCHANGED lock
       ELSE Return(t, "None")
    /\ UNCHANGED <<shared, history, steps>>

\* del self.cache[key]
TDeleteDel(t) ==
    /\ At(t, "del_del")
    /\ IF th[t].key \in KeysOf(cache)
       THEN cache' = DelItem(cache, th[t].key) /\ Return(t, "None")
       ELSE Raise(t) /\ UNCHANGED cache
    /\ tally' = Deleted(tally, cache, th[t].key)
    /\ UNCHANGED <<config, access_count, hit_count, miss_count, eviction_count, now,
                   gets, bookkeeping, steps>>

\* time passes
TTick ==
    /\ Issue
    /\ now' = now + 1
    /\ UNCHANGED <<config, cache, access_count, hit_count, miss_count, eviction_count,
                   gets, history, threads>>

NextThreads ==
    \/ \E t \in Threads, key \in ThreadKeys, value \in ThreadValues,
          custom_ttl \in ThreadTtls :
         TSetCall(t, key, value, custom_ttl)
    \/ \E t \in Threads : TSetLock(t)
    \/ \E t \in Threads : TSetCheck(t)
    \/ \E t \in Threads : TSetInsert(t)
    \/ \E t \in Threads : TEvictCall(t)
    \/ \E t \in Threads : TEvEmpty(t)
    \/ \E t \in Threads : TEvChoose(t)
    \/ \E t \in Threads : TEvDel(t)
    \/ \E t \in Threads : TEvRead(t)
    \/ \E t \in Threads : TEvWrite(t)
    \/ \E t \in Threads, key \in ThreadKeys : TGetCall(t, key)
    \/ \E t \in Threads : TGetLock(t)
    \/ \E t \in Threads : TGetCheck(t)
    \/ \E t \in Threads : TGetItem(t)
    \/ \E t \in Threads : TGetDel(t)
    \/ \E t \in Threads : TGetMiss(t)
    \/ \E t \in Threads : TGetHit(t)
    \/ \E t \in Threads : TGetMove(t)
    \/ \E t \in Threads : TGetDone(t)
    \/ \E t \in Threads, key \in ThreadKeys : TDeleteCall(t, key)
    \/ \E t \in Threads : TDeleteLock(t)
    \/ \E t \in Threads : TDeleteCheck(t)
    \/ \E t \in Threads : TDeleteDel(t)
    \/ TTick

InitThreads == Init /\ max_size \in ThreadCaps

SpecThreads == InitThreads /\ [][NextThreads]_vars

\* the steps of thread t inside a call it has begun
Step(t) ==
    \/ TSetLock(t) \/ TSetCheck(t) \/ TSetInsert(t)
    \/ TEvEmpty(t) \/ TEvChoose(t) \/ TEvDel(t) \/ TEvRead(t) \/ TEvWrite(t)
    \/ TGetLock(t) \/ TGetCheck(t) \/ TGetItem(t) \/ TGetDel(t) \/ TGetMiss(t)
    \/ TGetHit(t) \/ TGetMove(t) \/ TGetDone(t)
    \/ TDeleteLock(t) \/ TDeleteCheck(t) \/ TDeleteDel(t)

\* the scheduler runs every thread that can take a step
Scheduling == \A t \in Threads : WF_vars(Step(t))

\* a thread begins a call
Calls ==
    \/ \E t \in Threads, key \in ThreadKeys, value \in ThreadValues,
          custom_ttl \in ThreadTtls :
         TSetCall(t, key, value, custom_ttl)
    \/ \E t \in Threads : TEvictCall(t)
    \/ \E t \in Threads, key \in ThreadKeys : TGetCall(t, key)
    \/ \E t \in Threads, key \in ThreadKeys : TDeleteCall(t, key)

NextFair ==
    \/ Calls
    \/ \E t \in Threads : Step(t)

\* popitem (lru) and min/next followed by del (here fifo): the two bodies of evict
InitFair == InitThreads /\ strategy \in {"lru", "fifo"}

\* the calls of SpecThreads at one reading of the clock, under a fair scheduler
SpecThreadsFair == InitFair /\ [][NextFair]_vars /\ Scheduling

\* the steps of thread t inside a call of set or get
StepSetGet(t) ==
    \/ TSetLock(t) \/ TSetCheck(t) \/ TSetInsert(t)
    \/ TEvEmpty(t) \/ TEvChoose(t) \/ TEvDel(t) \/ TEvRead(t) \/ TEvWrite(t)
    \/ TGetLock(t) \/ TGetCheck(t) \/ TGetItem(t) \/ TGetDel(t) \/ TGetMiss(t)
    \/ TGetHit(t) \/ TGetMove(t) \/ TGetDone(t)

NextSetGet ==
    \/ \E t \in Threads, key \in ThreadKeys, value \in ThreadValues,
          custom_ttl \in ThreadTtls :
         TSetCall(t, key, value, custom_ttl)
    \/ \E t \in Threads, key \in ThreadKeys : TGetCall(t, key)
    \/ \E t \in Threads : StepSetGet(t)

\* threads that issue finitely many set and get calls, under a fair scheduler
SpecSetGetFair ==
    InitThreads /\ [][NextSetGet]_vars /\ \A t \in Threads : WF_vars(StepSetGet(t))

\* the thread that calls get_stats() while the other thread uses the cache
Reporter == "t2"

\* get_stats() takes no lock; total_requests and hit_ratio are computed first
TStatsCall(t) ==
    /\ Begin(t, "get_stats", "None", "None", <<>>, "st_size")
    /\ UNCHANGED <<shared, history, lock>>

\* one read of the dict literal: 'size', 'hits', 'misses', 'evictions' in turn
TStatsRead(t, from, value, to) ==
    /\ At(t, from)
    /\ th' = [th EXCEPT ![t].snap = Append(@, value), ![t].pc = to]
    /\ UNCHANGED <<shared, history, steps, lock>>

\* 'size': len(self.cache)
TStatsSize(t) == TStatsRead(t, "st_size", Len(cache), "st_hits")

\* 'hits': self.hit_count
TStatsHits(t) == TStatsRead(t, "st_hits", hit_count, "st_misses")

\* 'misses': self.miss_count
TStatsMisses(t) == TStatsRead(t, "st_misses", miss_count, "st_evictions")

\* 'evictions': self.eviction_count
TStatsEvictions(t) == TStatsRead(t, "st_evictions", eviction_count, "st_return")

\* 'strategy', 'memory_estimate'; the dict is returned
TStatsReturn(t) ==
    /\ At(t, "st_return")
    /\ th' = [th EXCEPT ![t].pc = "idle", ![t].ret = "stats"]
    /\ UNCHANGED <<shared, history, steps, lock>>

\* one thread's calls of set, get, evict and delete, each taken whole, in the
\* order it issues them, and the reporter's get_stats() running beside them
NextSnapshot ==
    \/ \E key \in ThreadKeys, value \in ThreadValues, custom_ttl \in ThreadTtls :
         Set(key, value, custom_ttl)
    \/ \E key \in ThreadKeys : Get(key)
    \/ Evict
    \/ \E key \in ThreadKeys : Delete(key)
    \/ TStatsCall(Reporter)
    \/ TStatsSize(Reporter)
    \/ TStatsHits(Reporter)
    \/ TStatsMisses(Reporter)
    \/ TStatsEvictions(Reporter)
    \/ TStatsReturn(Reporter)

\* the cache just constructed, its counters and size the first state seen
InitSnapshot ==
    \E cap \in ThreadCaps, dflt \in DefaultTtls, s \in Strategies :
        /\ max_size = cap
        /\ ttl = dflt
        /\ strategy = s
        /\ cache = <<>>
        /\ access_count = [k \in Keys |-> 0]
        /\ hit_count = 0
        /\ miss_count = 0
        /\ eviction_count = 0
        /\ now = 0
        /\ last = Call("init", "None", <<>>, "None", "None")
        /\ inserted = <<>>
        /\ used = <<>>
        /\ rewritten = {}
        /\ scenario = "off"
        /\ steps = 0
        /\ gets = 0
        /\ stats = <<>>
        /\ seen = <<{<<0, 0, 0, 0>>}>>
        /\ tally = <<>>
        /\ lock = "free"
        /\ th = [t \in Threads |-> Idle]

SpecSnapshot == InitSnapshot /\ [][NextSnapshot]_vars

\* the cache just constructed, no key added or deleted yet, the calls counted
InitTally ==
    \E cap \in ThreadCaps, dflt \in DefaultTtls, s \in Strategies :
        /\ max_size = cap
        /\ ttl = dflt
        /\ strategy = s
        /\ cache = <<>>
        /\ access_count = [k \in Keys |-> 0]
        /\ hit_count = 0
        /\ miss_count = 0
        /\ eviction_count = 0
        /\ now = 0
        /\ last = Call("init", "None", <<>>, "None", "None")
        /\ inserted = <<>>
        /\ used = <<>>
        /\ rewritten = {}
        /\ scenario = "off"
        /\ steps = 0
        /\ gets = 0
        /\ stats = <<>>
        /\ seen = <<>>
        /\ tally = <<0, 0>>
        /\ lock = "free"
        /\ th = [t \in Threads |-> Idle]

\* the threads of SpecThreads, their additions and deletions counted
SpecTally == InitTally /\ [][NextThreads]_vars

\* the one thread that calls evict() directly
Evictor == "t1"

\* the threads of SpecThreads, evict() called by Evictor alone: the other threads
\* run get, set (with the eviction set makes at capacity) and delete
NextEvictor ==
    \/ \E t \in Threads, key \in ThreadKeys, value \in ThreadValues,
          custom_ttl \in ThreadTtls :
         TSetCall(t, key, value, custom_ttl)
    \/ \E t \in Threads : TSetLock(t)
    \/ \E t \in Threads : TSetCheck(t)
    \/ \E t \in Threads : TSetInsert(t)
    \/ TEvictCall(Evictor)
    \/ \E t \in Threads : TEvEmpty(t)
    \/ \E t \in Threads : TEvChoose(t)
    \/ \E t \in Threads : TEvDel(t)
    \/ \E t \in Threads : TEvRead(t)
    \/ \E t \in Threads : TEvWrite(t)
    \/ \E t \in Threads, key \in ThreadKeys : TGetCall(t, key)
    \/ \E t \in Threads : TGetLock(t)
    \/ \E t \in Threads : TGetCheck(t)
    \/ \E t \in Threads : TGetItem(t)
    \/ \E t \in Threads : TGetDel(t)
    \/ \E t \in Threads : TGetMiss(t)
    \/ \E t \in Threads : TGetHit(t)
    \/ \E t \in Threads : TGetMove(t)
    \/ \E t \in Threads : TGetDone(t)
    \/ \E t \in Threads, key \in ThreadKeys : TDeleteCall(t, key)
    \/ \E t \in Threads : TDeleteLock(t)
    \/ \E t \in Threads : TDeleteCheck(t)
    \/ \E t \in Threads : TDeleteDel(t)
    \/ TTick

SpecEvictor == InitThreads /\ [][NextEvictor]_vars

\* main(): the cache after warmup(1), one entry set with custom_ttl=3600, before
\* the threads issue their calls
InitWarm ==
    \E cap \in ThreadCaps, dflt \in DefaultTtls, s \in Strategies :
        /\ max_size = cap
        /\ ttl = dflt
        /\ strategy = s
        /\ cache = <<NewEntry("a", "v1", TtlOr(<<WarmupTtl>>, dflt), 0)>>
        /\ access_count = [k \in Keys |-> 0]
        /\ hit_count = 0
        /\ miss_count = 0
        /\ eviction_count = 0
        /\ now = 0
        /\ last = Call("set", "a", <<WarmupTtl>>, "True", "None")
        /\ inserted = <<"a">>
        /\ used = <<"a">>
        /\ rewritten = {}
        /\ scenario = "off"
        /\ steps = 0
        /\ gets = 0
        /\ stats = <<>>
        /\ seen = <<>>
        /\ tally = <<>>
        /\ lock = "free"
        /\ th = [t \in Threads |-> Idle]

\* the threads of SpecThreads on a warmed cache
SpecWarm == InitWarm /\ [][NextThreads]_vars

\* ------------------------------------------------------------ the claims
\* the step is a call of op on key that returns
Returned(op, key) == steps' = steps + 1 /\ last'.op = op /\ last'.key = key

\* the step performs a policy eviction (through evict() or through set)
Evicts == steps' = steps + 1 /\ last'.op \in {"set", "evict"} /\ last'.evicted # "None"

Position(q, k) == CHOOSE i \in 1..Len(q) : q[i] = k

\* C1: len(store) <= capacity in the state each set returns in, whatever calls of
\* set, get, evict and delete the threads interleave (here: in every state).
C1_CapacityBound == Len(cache) <= max_size

\* a set has returned into a full store that has seen an eviction, while the other
\* thread is inside a call
C1_Witness ==
    \E t \in Threads, u \in Threads :
        /\ t # u
        /\ th[t].pc = "idle" /\ th[t].op = "set" /\ th[t].ret = "True"
        /\ th[u].pc \notin {"idle", "set_lock", "get_lock", "del_lock"}
        /\ Len(cache) = max_size
        /\ eviction_count > 0

C3_ExpiredGet ==
    [][\A k \in Keys :
        /\ (k \in KeysOf(cache) /\ now >= Item(cache, k).expires /\ Returned("get", k))
             => /\ last'.ret = "None"
                /\ k \notin KeysOf(cache')
                /\ miss_count' = miss_count + 1
                /\ eviction_count' = eviction_count + 1
        /\ (last.op = "get" /\ last.key = k /\ last.ret = "None" /\ Returned("get", k))
             => /\ last'.ret = "None"
                /\ miss_count' = miss_count + 1
                /\ eviction_count' = eviction_count]_vars

\* C4: set(k, v, ttl=0) followed at once by get(k) returns absent and adds 1 to
\* miss_count and 1 to eviction_count.
C4_ZeroTtl ==
    [][\A k \in Keys :
        (last.op = "set" /\ last.key = k /\ last.custom_ttl = <<0>> /\ Returned("get", k))
          => /\ last'.ret = "None"
             /\ miss_count' = miss_count + 1
             /\ eviction_count' = eviction_count + 1]_vars

\* C5: a set of a key not in the store while len(store) = capacity removes exactly
\* one entry, the policy's choice, adds exactly 1 to eviction_count and inserts the
\* key; afterwards len(store) = capacity and the key is present.
C5_InsertAtCapacity ==
    [][\A k \in Keys :
        (Len(cache) = max_size /\ k \notin KeysOf(cache) /\ Returned("set", k))
          => /\ KeysOf(cache) \ KeysOf(cache') = {last'.evicted}
             /\ last'.evicted = Victim(cache, strategy)
             /\ KeysOf(cache') \ KeysOf(cache) = {k}
             /\ eviction_count' = eviction_count + 1
             /\ Len(cache') = max_size]_vars

C5_Witness ==
    /\ last.op = "set"
    /\ last.evicted \notin {"None", last.key}
    /\ last.key \notin rewritten
    /\ last.key \in KeysOf(cache)
    /\ Len(cache) = max_size

\* C6: a set on a key already in the store removes no entry and leaves
\* eviction_count unchanged, also when len(store) = capacity.
C6_OverwriteNeverEvicts ==
    [][\A k \in Keys :
        (k \in KeysOf(cache) /\ Returned("set", k))
          => /\ KeysOf(cache') = KeysOf(cache)
             /\ last'.evicted = "None"
             /\ eviction_count' = eviction_count]_vars

\* C7: under lru, while no present key has been overwritten, an eviction removes
\* the key whose latest insert or hit is the oldest; with capacity 2,
\* set(a), set(b), get(a), set(c) evicts b and leaves the store {a, c}.
C7_LruVictim ==
    [][/\ (strategy = "lru" /\ rewritten = {} /\ Evicts) => last'.evicted = Head(used)
       /\ (strategy = "lru" /\ max_size = 2 /\ scenario = "ab_geta" /\ scenario' = "ab_geta_c")
            => last'.evicted = "b" /\ KeysOf(cache') = {"a", "c"}]_vars

C7_Witness ==
    /\ strategy = "lru"
    /\ max_size = 2
    /\ scenario = "ab_geta_c"
    /\ last.evicted = "b"

\* C8: under lru, a set on a key already in the store makes it the most recently
\* used: an eviction removes the key whose latest set or hit is the oldest.
C8_LruOverwrite ==
    [][(strategy = "lru" /\ Evicts) => last'.evicted = Head(used)]_vars

\* C9: under fifo, an eviction removes the earliest-inserted key still present, no
\* get changes which key that is, and with capacity 2, set(a), set(b), get(a),
\* set(c) evicts a and leaves the store {b, c}.
C9_FifoVictim ==
    [][/\ (strategy = "fifo" /\ Evicts) => last'.evicted = Head(inserted)
       /\ \A k \in Keys :
            (strategy = "fifo" /\ Returned("get", k) /\ cache' # <<>>)
              => /\ Victim(cache', strategy) = Head(inserted')
                 /\ Head(inserted) \in KeysOf(cache') => Head(inserted') = Head(inserted)
       /\ (strategy = "fifo" /\ max_size = 2 /\ scenario = "ab_geta" /\ scenario' = "ab_geta_c")
            => last'.evicted = "a" /\ KeysOf(cache') = {"b", "c"}]_vars

C9_Witness ==
    /\ strategy = "fifo"
    /\ max_size = 2
    /\ scenario = "ab_geta_c"
    /\ last.evicted = "a"
    /\ hit_count = 1

\* C10: under lfu, an eviction removes a key of the least access_count among the
\* entries present, and of the keys sharing that count the earliest inserted.
C10_LfuVictim ==
    [][(strategy = "lfu" /\ Evicts) =>
        LET v == last'.evicted IN
        /\ v \in KeysOf(cache)
        /\ \A k \in KeysOf(cache) :
             /\ Item(cache, v).accessed <= Item(cache, k).accessed
             /\ (k # v /\ Item(cache, k).accessed = Item(cache, v).accessed)
                  => Position(inserted, v) < Position(inserted, k)]_vars

\* an lfu eviction that had to break a tie: an entry of count 0 is left behind
C10_Witness ==
    /\ strategy = "lfu"
    /\ last.op = "evict"
    /\ last.evicted # "None"
    /\ \E i \in 1..Len(cache) : cache[i].accessed = 0

\* C11: under ttl, an eviction removes a key whose expires is the least among the
\* entries present, whether or not that entry or any other has already expired.
C11_TtlVictim ==
    [][(strategy = "ttl" /\ Evicts) =>
        LET v == last'.evicted IN
        /\ v \in KeysOf(cache)
        /\ \A k \in KeysOf(cache) : Item(cache, v).expires <= Item(cache, k).expires]_vars

\* a ttl eviction that left an already expired entry behind
C11_Witness ==
    /\ strategy = "ttl"
    /\ last.op = "evict"
    /\ last.evicted # "None"
    /\ \E i \in 1..Len(cache) : cache[i].expires < now

\* C12: evict() on a non-empty store removes exactly one entry, returns its key and
\* adds exactly 1 to eviction_count; on an empty store it returns None and leaves
\* the store and the three counters as they were.
C12_EvictResult ==
    [][(steps' = steps + 1 /\ last'.op = "evict") =>
        /\ hit_count' = hit_count
        /\ miss_count' = miss_count
        /\ IF cache = <<>>
           THEN /\ last'.ret = "None"
                /\ cache' = cache
                /\ eviction_count' = eviction_count
           ELSE /\ last'.ret \in KeysOf(cache)
                /\ cache' = DelItem(cache, last'.ret)
                /\ Len(cache') = Len(cache) - 1
                /\ eviction_count' = eviction_count + 1]_vars

\* an evict() that emptied the store, followed by an evict() on the empty store
C12_Witness ==
    /\ last.op = "evict"
    /\ last.ret = "None"
    /\ cache = <<>>
    /\ eviction_count = 1
    /\ gets = 0

\* a thread that has begun the body of its call and not yet left it
InBody(t) ==
    /\ th[t].pc \notin {"idle", "set_lock", "get_lock", "del_lock"}
    /\ ~(th[t].op = "evict" /\ th[t].pc = "ev_empty")

\* C13: set, get, evict and the delete each run inside one exclusive critical
\* section: a thread inside the body of its call holds the lock, and no two
\* threads are inside the bodies of their calls at the same time, an evict()
\* called directly by a thread included.
C13_MutualExclusion ==
    \A t \in Threads :
        InBody(t) => /\ lock = t
                     /\ \A u \in Threads \ {t} : ~InBody(u)

\* C14: a get of a present key before its expiry returns the stored value, adds
\* exactly 1 to hit_count and to the entry's accessed, sets its last_access to
\* now, and leaves miss_count, eviction_count, the set of keys and every other
\* entry as they were; so n such gets in a row add exactly n.
C14_GetHit ==
    [][\A k \in Keys :
        (k \in KeysOf(cache) /\ now < Item(cache, k).expires /\ Returned("get", k))
          => /\ last'.ret = Item(cache, k).value
             /\ hit_count' = hit_count + 1
             /\ KeysOf(cache') = KeysOf(cache)
             /\ Item(cache', k) = [key |-> k,
                                   value |-> Item(cache, k).value,
                                   expires |-> Item(cache, k).expires,
                                   created |-> Item(cache, k).created,
                                   accessed |-> Item(cache, k).accessed + 1,
                                   last_access |-> <<now>>]
             /\ \A j \in KeysOf(cache) \ {k} : Item(cache', j) = Item(cache, j)
             /\ miss_count' = miss_count
             /\ eviction_count' = eviction_count]_vars

\* the second of two hits in a row on one key, another entry standing by
C14_Witness ==
    /\ last.op = "get"
    /\ last.ret # "None"
    /\ hit_count = 2
    /\ Len(cache) = 2
    /\ Item(cache, last.key).accessed = 2
    /\ Item(cache, last.key).last_access = <<now>>

\* C15: delete(key) removes the entry of key if it is present and reports whether
\* it was present; it changes none of eviction_count, hit_count and miss_count
\* and leaves every other entry as it was.
C15_Delete ==
    [][\A k \in Keys :
        Returned("delete", k)
          => /\ cache' = IF k \in KeysOf(cache) THEN DelItem(cache, k) ELSE cache
             /\ k \notin KeysOf(cache')
             /\ \A j \in KeysOf(cache) \ {k} :
                  j \in KeysOf(cache') /\ Item(cache', j) = Item(cache, j)
             /\ last'.ret = IF k \in KeysOf(cache) THEN "True" ELSE "False"
             /\ eviction_count' = eviction_count
             /\ hit_count' = hit_count
             /\ miss_count' = miss_count]_vars

\* what the delete branch does do: the removal and the frame of C15, with no
\* result reported
DeleteRemoves ==
    [][\A k \in Keys :
        Returned("delete", k)
          => /\ cache' = IF k \in KeysOf(cache) THEN DelItem(cache, k) ELSE cache
             /\ last'.ret = "None"
             /\ <<eviction_count, hit_count, miss_count>>' =
                  <<eviction_count, hit_count, miss_count>>]_vars

\* C16: a constructor call with capacity <= 0 or a strategy outside lru, lfu, fifo,
\* ttl fails and yields no cache, so in every reachable state max_size > 0 and
\* the strategy is one of the four.
C16_ValidConfig == max_size > 0 /\ strategy \in Strategies

\* C17: after set(key, value, ttl) returns, the store maps key to an entry with the
\* given value, accessed 0, last_access unset, created = now and expires =
\* now + ttl (now + the default ttl when no ttl is given), also when the key was
\* present with a positive count; set returns True on every call.
C17_SetPostcondition ==
    [][\A k \in Keys, v \in Values, c \in CustomTtls :
        Set(k, v, c)
          => /\ k \in KeysOf(cache')
             /\ Item(cache', k) = [key |-> k,
                                   value |-> v,
                                   expires |-> now + (IF c = <<>> THEN ttl ELSE c[1]),
                                   created |-> now,
                                   accessed |-> 0,
                                   last_access |-> <<>>]
             /\ last'.ret = "True"]_vars

\* C19: in every reachable state every entry of the store has expires > created,
\* whatever ttl the caller passed to set or to the constructor (0 and negative
\* durations included).
C19_EntryValidity == \A i \in 1..Len(cache) : cache[i].expires > cache[i].created

\* what get_stats() reports beside the ratio
ReportsState(r) ==
    /\ r.size = Len(cache)
    /\ r.hits = hit_count
    /\ r.misses = miss_count
    /\ r.evictions = eviction_count

\* x is a float nearest to h / t: x.mant * t is within t / 2 of h * 2^(-x.exp)
Nearest(x, h, t) ==
    IF h = 0 THEN x = FZero
    ELSE LET p == MulAt(x.mant, t, Len(x.mant), 0)
             hz == h * 2^(0 - x.exp - (MantBits - 1))
         IN  /\ x.mant[1] = 1
             /\ \E d \in 0..(t \div 2) :
                  \/ p = [i \in 1..(Limbs + 1) |->
                            IF i = 1 THEN hz ELSE IF i = Limbs + 1 THEN d ELSE 0]
                  \/ /\ d > 0
                     /\ p = [i \in 1..(Limbs + 1) |->
                               IF i = 1 THEN hz - 1
                               ELSE IF i = Limbs + 1 THEN Base - d ELSE Base - 1]

\* C18: get_stats() reports a hit_ratio with hit_ratio * (hits + misses) == hits
\* whenever hits + misses > 0, and hit_ratio 0 when no get has been counted; the
\* size, hits, misses and evictions it reports are len(cache) and the counters.
C18_HitRatio ==
    Len(stats) = 1 =>
        LET r == stats[1] IN
        /\ r.hits + r.misses > 0 => FMulInt(r.hit_ratio, r.hits + r.misses) = FromInt(r.hits)
        /\ r.hits + r.misses = 0 => r.hit_ratio = FZero
        /\ ReportsState(r)

\* C18 as the code has it: the hit_ratio reported is the float nearest to
\* hits / (hits + misses) whenever hits + misses > 0, and 0 when no get has been
\* counted; size, hits, misses and evictions are len(cache) and the counters.
C18_HitRatioNearest ==
    Len(stats) = 1 =>
        LET r == stats[1] IN
        /\ r.hits + r.misses > 0 => Nearest(r.hit_ratio, r.hits, r.hits + r.misses)
        /\ r.hits + r.misses = 0 => r.hit_ratio = FZero
        /\ ReportsState(r)

\* get_stats() after 15 hits and 7 misses: the ratio times 22 is not 15
C18_Witness ==
    /\ Len(stats) = 1
    /\ stats[1].hits = 15
    /\ stats[1].misses = 7
    /\ stats[1].size = 1
    /\ FMulInt(stats[1].hit_ratio, 22) # FromInt(15)

\* C20: hit_count, miss_count and eviction_count are non-negative in every
\* reachable state, and no call (set, get, evict, the delete, get_stats) ever
\* decreases any of them.
C20_CounterMonotone ==
    [][/\ hit_count >= 0 /\ miss_count >= 0 /\ eviction_count >= 0
       /\ hit_count' >= hit_count
       /\ miss_count' >= miss_count
       /\ eviction_count' >= eviction_count]_vars

\* C21: a set issued while len(cache) < max_size removes no entry and leaves
\* eviction_count as it was; a set evicts only when len(cache) has reached
\* max_size.
C21_NoEvictionBelowCapacity ==
    [][\A k \in Keys :
        Returned("set", k)
          => /\ Len(cache) < max_size
                  => /\ KeysOf(cache) \subseteq KeysOf(cache')
                     /\ last'.evicted = "None"
                     /\ eviction_count' = eviction_count
             /\ (last'.evicted # "None" \/ eviction_count' # eviction_count)
                  => Len(cache) >= max_size]_vars

\* a set that filled the second of three places with nothing evicted so far
C21_Witness ==
    /\ last.op = "set"
    /\ last.evicted = "None"
    /\ max_size = 3
    /\ Len(cache) = 2
    /\ eviction_count = 0

\* C22: get(key) on a key not in the store returns None, adds exactly 1 to
\* miss_count and leaves the store with every entry, hit_count, eviction_count
\* and the per-key counts as they were.
C22_MissOnAbsent ==
    [][\A k \in Keys :
        (k \notin KeysOf(cache) /\ Returned("get", k))
          => /\ last'.ret = "None"
             /\ miss_count' = miss_count + 1
             /\ cache' = cache
             /\ hit_count' = hit_count
             /\ eviction_count' = eviction_count
             /\ access_count' = access_count]_vars

\* a miss on an absent key beside an entry that has been hit
C22_Witness ==
    /\ last.op = "get"
    /\ last.ret = "None"
    /\ last.key \notin KeysOf(cache)
    /\ miss_count = 1
    /\ eviction_count = 0
    /\ \E i \in 1..Len(cache) : cache[i].accessed = 1

\* the entries of c whose key is not in ks, in their order
Others(c, ks) == SelectSeq(c, LAMBDA e : e.key \notin ks)

\* C26: one eviction, through evict() or through a set at capacity, removes
\* exactly the chosen victim: every other entry keeps its value, created,
\* expires, accessed and its place relative to the others (the set then writes
\* the entry of its own key only), and hit_count and miss_count are unchanged.
C26_EvictionFrame ==
    [][Evicts =>
        LET v == last'.evicted IN
        /\ v \in KeysOf(cache)
        /\ last'.op = "evict" => cache' = DelItem(cache, v)
        /\ last'.op = "set" =>
             Others(cache', {last'.key}) = Others(DelItem(cache, v), {last'.key})
        /\ hit_count' = hit_count
        /\ miss_count' = miss_count]_vars

\* an eviction that left an entry with a count behind
C26_Witness ==
    /\ last.op \in {"set", "evict"}
    /\ last.evicted # "None"
    /\ hit_count > 0
    /\ \E i \in 1..Len(cache) : cache[i].accessed > 0 /\ cache[i].key # last.key

\* C28: the passage of time alone removes nothing; an entry whose expires has
\* passed stays in the store and counts in the capacity check of set, until a
\* get of its own key, an eviction that selects it, or the delete of its key
\* removes it; entries leave the store through those three paths only.
C28_LazyExpiry ==
    [][/\ now' # now => cache' = cache
       /\ \A j \in KeysOf(cache) \ KeysOf(cache') :
            \/ last'.op = "get" /\ last'.key = j /\ now >= Item(cache, j).expires
            \/ last'.op \in {"set", "evict"} /\ last'.evicted = j
            \/ last'.op = "delete" /\ last'.key = j
       /\ \A k \in Keys :
            (/\ Returned("set", k)
             /\ Len(cache) >= max_size
             /\ \E i \in 1..Len(cache) : cache[i].expires < now)
              => last'.evicted = Victim(cache, strategy)
       /\ \A k \in Keys :
            (k \in KeysOf(cache) /\ now > Item(cache, k).expires /\ Returned("get", k))
              => k \notin KeysOf(cache')]_vars

\* a set at capacity evicted another key and left an expired entry in the store
C28_Witness ==
    /\ last.op = "set"
    /\ last.evicted # "None"
    /\ Len(cache) = max_size
    /\ \E i \in 1..Len(cache) : cache[i].expires < now /\ cache[i].key # last.key

Min(x, y) == IF x <= y THEN x ELSE y

\* C27: max_size, ttl and strategy have in every state the values the
\* constructor gave them: no set, get, evict, delete, get_stats or warmup step
\* changes any of them.
C27_ConfigImmutable == [][<<max_size, ttl, strategy>>' = <<max_size, ttl, strategy>>]_vars

\* a warmup and calls of every other kind have gone by on one cache
C27_Witness ==
    /\ last.op = "get_stats"
    /\ steps = MaxSteps
    /\ Len(cache) > 0
    /\ \A i \in 1..Len(cache) : cache[i].expires = cache[i].created + WarmupTtl
    /\ miss_count > 0

\* C29: after warmup(n) on an empty cache of capacity C with n distinct keys,
\* len(cache) = min(n, C), eviction_count = max(0, n - C), hit_count =
\* miss_count = 0 and every entry has expires = its insertion time + 3600,
\* whatever the default ttl.
C29_Warmup ==
    last.op = "warmup" =>
        /\ Len(cache) = Min(steps, max_size)
        /\ eviction_count = steps - Min(steps, max_size)
        /\ hit_count = 0
        /\ miss_count = 0
        /\ \A i \in 1..Len(cache) :
             /\ cache[i].created = now
             /\ cache[i].expires = cache[i].created + WarmupTtl

\* a warmup of more keys than the cache holds: evictions counted, entries kept to 3600
C29_Witness ==
    /\ last.op = "warmup"
    /\ steps = 3
    /\ max_size = 2
    /\ eviction_count = 1
    /\ ttl # WarmupTtl

\* C24: under any interleaving of evict() in one thread with get, set or
\* delete in other threads, the victim evict chose is still present when evict
\* removes it, so no call of evict() ends by an exception.
C24_EvictNeverFails == ~(th[Evictor].op = "evict" /\ th[Evictor].ret = "raised")

\* thread t waits at the with-statement of set, get or delete
Waiting(t) == th[t].pc \in {"set_lock", "get_lock", "del_lock"}

\* C23: the lock is free whenever no call is in progress, no thread that has
\* left a call (by return or by exception, on any path of set, get, evict or
\* delete) still holds it, and a thread waiting for the lock eventually gets it.
C23_GuardRelease ==
    /\ []((\A t \in Threads : th[t].pc = "idle") => lock = "free")
    /\ [](\A t \in Threads : th[t].pc = "idle" => lock # t)
    /\ \A t \in Threads : Waiting(t) ~> ~Waiting(t)

\* a get that missed has returned while the other thread waits for the lock it freed
C23_Witness ==
    \E t, u \in Threads :
        /\ th[t].pc = "idle" /\ th[t].op = "get" /\ th[t].ret = "None"
        /\ Waiting(u)
        /\ lock = "free"

\* thread t is in the evict() its set called
InSetEvict(t) ==
    th[t].op = "set" /\ th[t].pc \in {"ev_empty", "ev_choose", "ev_del", "ev_read", "ev_write"}

\* C30: set calls evict while it holds the non-reentrant lock, and every set at
\* capacity still completes; with threads issuing finitely many set and get
\* calls under fair scheduling every call eventually returns, none by an
\* exception.
C30_Termination ==
    /\ [](\A t \in Threads : InSetEvict(t) => lock = t)
    /\ [](\A t \in Threads : th[t].ret # "raised")
    /\ \A t \in Threads :
         InSetEvict(t) ~> (th[t].pc = "idle" /\ th[t].op = "set" /\ th[t].ret = "True")
    /\ \A t \in Threads : (th[t].pc # "idle") ~> (th[t].pc = "idle")

\* a set at capacity is back from evict with its victim, still holding the lock
\* the other thread waits for
C30_Witness ==
    \E t, u \in Threads :
        /\ th[t].op = "set" /\ th[t].pc = "set_insert" /\ th[t].victim # "None"
        /\ lock = t
        /\ eviction_count = 1
        /\ Waiting(u)

\* C25: under any interleaving of get_stats() with set, get, evict and delete
\* of another thread, the (hits, misses, evictions, size) one get_stats() call
\* returns are the counters and size of one state of the serial order of those
\* calls.
C25_SnapshotConsistent ==
    (th[Reporter].op = "get_stats" /\ th[Reporter].pc = "idle" /\ th[Reporter].ret = "stats")
        => LET snap == th[Reporter].snap
           IN  <<snap[2], snap[3], snap[4], snap[1]>> \in seen[1]

\* C31: in every state between calls, len(cache) = (sets that added a key
\* absent at insertion) - eviction_count - (deletes that removed a present
\* key): every removal other than a delete is counted in eviction_count once.
C31_SizeConservation ==
    (\A t \in Threads : th[t].pc = "idle")
        => Len(cache) = tally[1] - eviction_count - tally[2]

\* key j comes before key k in the iteration order of store c
Before(c, j, k) == IndexOf(c, j) < IndexOf(c, k)

\* C32: under fifo, lfu and ttl a set on a key already in the store keeps the
\* key at its place in the iteration order: the key stays on the same side of
\* every other key that remains, so under fifo it is still evicted before the
\* keys inserted after it.
C32_OverwriteKeepsOrder ==
    [][\A k \in Keys :
        (strategy \in {"fifo", "lfu", "ttl"} /\ k \in KeysOf(cache) /\ Returned("set", k))
          => /\ k \in KeysOf(cache')
             /\ \A j \in (KeysOf(cache) \cap KeysOf(cache')) \ {k} :
                  Before(cache', j, k) <=> Before(cache, j, k)]_vars

RECURSIVE SumOver(_, _)
SumOver(f, S) ==
    IF S = {} THEN 0
    ELSE LET k == CHOOSE x \in S : TRUE IN f[k] + SumOver(f, S \ {k})

\* no get is between item['accessed'] += 1 and self.access_count[key] += 1
NoHitUnderWay == \A t \in Threads : th[t].pc \notin {"get_move", "get_done"}

\* C33: in every state the access_count map sums to hit_count; every entry in
\* the store has accessed <= access_count[key] (a get under way, between its
\* two increments, aside); and no step lowers or removes a count of the map,
\* whether the key is overwritten, evicted, expired or deleted.
C33_HitMap ==
    /\ [](SumOver(access_count, Keys) = hit_count)
    /\ [](NoHitUnderWay =>
            \A i \in 1..Len(cache) : cache[i].accessed <= access_count[cache[i].key])
    /\ [][\A k \in Keys : access_count'[k] >= access_count[k]]_vars

\* a key hit once and then overwritten: the entry starts again at 0, the map keeps 1;
\* the other thread is inside a call
C33_Witness ==
    /\ hit_count = 1
    /\ \E i \in 1..Len(cache) :
         /\ cache[i].accessed = 0
         /\ access_count[cache[i].key] = 1
    /\ \E t \in Threads : th[t].pc # "idle"

====
